---- MODULE Spec2Model ----
(***************************************************************************)
(* Receipt OCR core of DIGI-Core-Tech.                                     *)
(*                                                                         *)
(* Part 1 (Spec): the OCR orchestrator _try_multiple_ocr_methods and       *)
(* _compare_ocr_results of enhanced_ocr_service.py, as printed in          *)
(* OCR_HYBRID_MODE_DOCUMENTATION.md, run next to an eager variant that     *)
(* issues both engine calls at once.                                       *)
(* Part 2 (SpecParse): the hierarchical receipt parser of                  *)
(* intelligent_receipt_parser.py, as far as the repository's reports       *)
(* print or describe it.                                                   *)
(***************************************************************************)
EXTENDS Integers, Sequences, FiniteSets, TLC

VARIABLES
    engineOutcome,     \* what each engine does with this image (input)
    pc,                \* position of _try_multiple_ocr_methods
    ocr_result,        \* result of the primary call
    tesseract_result,  \* result of the secondary call
    returned,          \* value returned by _try_multiple_ocr_methods
    seqCalls,          \* number of calls of each adapter in this run
    compared,          \* _compare_ocr_results has been called
    pipeline,          \* what the caller did with the returned value
    epc,               \* position of the eager orchestrator
    task,              \* state of each eagerly issued engine call
    taskResult,        \* result delivered by each eager call
    lateOutput,        \* output an engine produced after its timeout
    eReturned,         \* value returned by the eager orchestrator
    eCalls,            \* number of calls of each adapter, eager run
    lines,             \* ReceiptLine list of the winning text (input)
    pos,               \* index of the next line to parse, 0 while building
    parentPrice,       \* price of the current parent line
    parentRole,        \* role given to the current parent line
    roles,             \* role given to each parsed line
    items,             \* ParsedItem list
    format,            \* layout the format detector reported
    fLines,            \* lines of a flat-format text (input)
    fSubtotal,         \* subtotal extracted from a flat-format text
    rWarnings,         \* warnings of the Receipt
    tLines,            \* trailing lines seen by the totals extractor (input)
    tPos,              \* index of the next line the totals extractor reads
    tParsed,           \* numeric value parsed from each line read
    tTotal,            \* extracted total
    tTotalLine,        \* line that supplied the total, 0: none
    tSubtotal,         \* extracted subtotal
    cName,             \* raw item name handed to the Name Cleaner (input)
    cPath,             \* path that produced the name
    cOnce,             \* clean(name)
    cTwice,            \* clean(clean(name))
    cStage,            \* position of the cleaning run
    cItems,            \* names of the items the path emitted
    families,          \* FamilyService.families: familyId -> Family
    invites,           \* FamilyService.invites: inviteCode -> FamilyInvite
    fNow,              \* Date.now() seen by the family service, in days
    fJoins,            \* successful joinFamily calls made with each code
    fCalls,            \* number of calls that changed the two maps
    fLast,             \* the last call of the family service and how it ended
    nNow,              \* new Date() seen by the notification service
    notes,             \* the notifications and what was done with each
    nHanded            \* notifications handed to a channel sender

ocrVars == <<engineOutcome, pc, ocr_result, tesseract_result, returned,
             seqCalls, compared, pipeline, epc, task, taskResult,
             lateOutput, eReturned, eCalls>>
parseVars == <<lines, pos, parentPrice, parentRole, roles, items,
               format, fLines, fSubtotal, rWarnings>>
totalsVars == <<tLines, tPos, tParsed, tTotal, tTotalLine, tSubtotal>>
cleanVars == <<cName, cPath, cOnce, cTwice, cStage, cItems>>
familyVars == <<families, invites, fNow, fJoins, fCalls, fLast>>
notifyVars == <<nNow, notes, nHanded>>
vars == <<engineOutcome, pc, ocr_result, tesseract_result, returned,
          seqCalls, compared, pipeline, epc, task, taskResult,
          lateOutput, eReturned, eCalls,
          lines, pos, parentPrice, parentRole, roles, items,
          format, fLines, fSubtotal, rWarnings,
          tLines, tPos, tParsed, tTotal, tTotalLine, tSubtotal,
          cName, cPath, cOnce, cTwice, cStage, cItems,
          families, invites, fNow, fJoins, fCalls, fLast,
          nNow, notes, nHanded>>

----------------------------------------------------------------------------
(* Bounds *)

MaxBlocks == 3
WordsPerBlock == 30
ShortBlock == 40
MaxLines == 3

----------------------------------------------------------------------------
(* Texts: nShort tokens of two characters and nLong tokens of five         *)
(* characters, separated by single blanks.                                *)

Min(a, b) == IF a <= b THEN a ELSE b

ShortLen == 2
LongLen == 5

Texts == [nShort : {0, ShortBlock},
          nLong : {WordsPerBlock * k : k \in 0..MaxBlocks}]

EmptyText == [nShort |-> 0, nLong |-> 0]

TokenCount(t) == t.nShort + t.nLong

\* len(text)
TextLen(t) ==
    ShortLen * t.nShort + LongLen * t.nLong
        + (IF TokenCount(t) > 0 THEN TokenCount(t) - 1 ELSE 0)

\* len([w for w in text.split() if len(w) > 2])
ValidWords(t) ==
    (IF ShortLen > 2 THEN t.nShort ELSE 0) + (IF LongLen > 2 THEN t.nLong ELSE 0)

----------------------------------------------------------------------------
(* Engine results *)

Engines == {"primary", "secondary"}

NoConf == -1     \* the result has no 'confidence' key
NoScore == -1    \* the result has no 'comparison_score' key

Confidences == {0, 35, 69, 70, 71, 100}

Outcomes ==
    [kind : {"success"}, text : Texts, confidence : Confidences \cup {NoConf}]
    \cup [kind : {"failure"}, text : {EmptyText}, confidence : {NoConf}]
    \cup [kind : {"timeout"}, text : {EmptyText, [nShort |-> 0, nLong |-> WordsPerBlock]},
          confidence : {100}]

FailedResult(e) ==
    [success |-> FALSE, text |-> EmptyText, confidence |-> NoConf,
     ocr_engine |-> e, hybrid_mode |-> FALSE, comparison_score |-> NoScore]

NoResult == FailedResult("none")

\* Variant of Submit that hands out the partial output of a timed-out call.
SubmitKeepPartial(e, o) ==
    IF o.kind = "failure"
    THEN FailedResult(e)
    ELSE [success |-> TRUE, text |-> o.text, confidence |-> o.confidence,
          ocr_engine |-> e, hybrid_mode |-> FALSE, comparison_score |-> NoScore]

\* submit(image, lang) -> {text, confidence} | Error, under the caller's
\* timeout: a timed-out call is an Error and its partial output is dropped.
Submit(e, o) ==
    IF o.kind = "success"
    THEN [success |-> TRUE, text |-> o.text, confidence |-> o.confidence,
          ocr_engine |-> e, hybrid_mode |-> FALSE, comparison_score |-> NoScore]
    ELSE FailedResult(e)

\* dict.get('confidence', default)
GetConfidence(r, default) ==
    IF r.confidence = NoConf THEN default ELSE r.confidence

QUALITY_THRESHOLD_Raised == 70 + 10
QUALITY_THRESHOLD == 70

\* 50 * (confidence * 0.40 + min(100, (len(text) / 500) * 100) * 0.30
\*       + min(100, (words / 50) * 100) * 0.30), in exact arithmetic
Score50(r) ==
    20 * GetConfidence(r, 0)
        + 3 * Min(500, TextLen(r.text))
        + 15 * Min(100, 2 * ValidWords(r.text))

\* Variant of _compare_ocr_results in which the secondary wins a tie.
CompareSecondaryWinsTie(o, t) ==
    IF Score50(o) > Score50(t)
    THEN [o EXCEPT !.hybrid_mode = TRUE, !.comparison_score = Score50(o)]
    ELSE [t EXCEPT !.hybrid_mode = TRUE, !.comparison_score = Score50(t)]

\* Variant of _compare_ocr_results that returns the primary of a tie as it
\* came, without the hybrid tag.
CompareTieUntagged(o, t) ==
    IF Score50(o) > Score50(t)
    THEN [o EXCEPT !.hybrid_mode = TRUE, !.comparison_score = Score50(o)]
    ELSE IF Score50(o) = Score50(t)
    THEN o
    ELSE [t EXCEPT !.hybrid_mode = TRUE, !.comparison_score = Score50(t)]

\* Variant of _compare_ocr_results that picks the lower score.
CompareLowerWins(o, t) ==
    IF Score50(o) <= Score50(t)
    THEN [o EXCEPT !.hybrid_mode = TRUE, !.comparison_score = Score50(o)]
    ELSE [t EXCEPT !.hybrid_mode = TRUE, !.comparison_score = Score50(t)]

_compare_ocr_results(o, t) ==
    IF Score50(o) >= Score50(t)
    THEN [o EXCEPT !.hybrid_mode = TRUE, !.comparison_score = Score50(o)]
    ELSE [t EXCEPT !.hybrid_mode = TRUE, !.comparison_score = Score50(t)]

----------------------------------------------------------------------------
(* _try_multiple_ocr_methods, one action per call and per return *)

\* Variant of the final return that substitutes text from a manual
\* extraction when the secondary engine has failed too.
FallbackWithManualText(t) ==
    IF t.success
    THEN t
    ELSE [t EXCEPT !.success = TRUE, !.ocr_engine = "manual",
                   !.text = [nShort |-> 0, nLong |-> WordsPerBlock]]

\* Variant of the final return that tags the secondary result as hybrid.
FallbackTagged(t) == [t EXCEPT !.hybrid_mode = TRUE]

\* return self._try_tesseract_ocr(...)
FallbackResult(t) == t

\* ocr_result = self._try_ocrspace_with_fallback(...)
Seq_CallPrimary ==
    /\ pc = "start"
    /\ ocr_result' = Submit("primary", engineOutcome["primary"])
    /\ seqCalls' = [seqCalls EXCEPT !["primary"] = @ + 1]
    /\ pc' = "primary_returned"
    /\ UNCHANGED <<tesseract_result, returned, compared>>

\* success and confidence >= QUALITY_THRESHOLD: return ocr_result
Seq_ReturnPrimary ==
    /\ pc = "primary_returned"
    /\ ocr_result.success
    /\ ~(GetConfidence(ocr_result, 100) < QUALITY_THRESHOLD)
    /\ returned' = ocr_result
    /\ pc' = "done"
    /\ UNCHANGED <<ocr_result, tesseract_result, seqCalls, compared>>

\* success and confidence < QUALITY_THRESHOLD: also try Tesseract
Seq_CallSecondaryHybrid ==
    /\ pc = "primary_returned"
    /\ ocr_result.success
    /\ GetConfidence(ocr_result, 100) < QUALITY_THRESHOLD
    /\ tesseract_result' = Submit("secondary", engineOutcome["secondary"])
    /\ seqCalls' = [seqCalls EXCEPT !["secondary"] = @ + 1]
    /\ pc' = "hybrid"
    /\ UNCHANGED <<ocr_result, returned, compared>>

\* tesseract_result succeeded: return the winner of the comparison
Seq_Compare ==
    /\ pc = "hybrid"
    /\ tesseract_result.success
    /\ returned' = _compare_ocr_results(ocr_result, tesseract_result)
    /\ compared' = TRUE
    /\ pc' = "done"
    /\ UNCHANGED <<ocr_result, tesseract_result, seqCalls>>

\* Variant of Seq_ReturnPrimaryLow that returns the failure of the
\* secondary engine.
Seq_ReturnSecondaryFailure ==
    /\ pc = "hybrid"
    /\ ~tesseract_result.success
    /\ returned' = tesseract_result
    /\ pc' = "done"
    /\ UNCHANGED <<ocr_result, tesseract_result, seqCalls, compared>>

\* Variant of Seq_ReturnPrimaryLow that falls through to the final
\* "return self._try_tesseract_ocr(...)" and so calls the engine again.
Seq_RetrySecondary ==
    /\ pc = "hybrid"
    /\ ~tesseract_result.success
    /\ tesseract_result' = Submit("secondary", engineOutcome["secondary"])
    /\ seqCalls' = [seqCalls EXCEPT !["secondary"] = @ + 1]
    /\ returned' = FallbackResult(tesseract_result')
    /\ pc' = "done"
    /\ UNCHANGED <<ocr_result, compared>>

\* tesseract_result failed: return ocr_result  # OCR.space good enough
Seq_ReturnPrimaryLow ==
    /\ pc = "hybrid"
    /\ ~tesseract_result.success
    /\ returned' = ocr_result
    /\ pc' = "done"
    /\ UNCHANGED <<ocr_result, tesseract_result, seqCalls, compared>>

\* primary failed: return self._try_tesseract_ocr(...)
Seq_Fallback ==
    /\ pc = "primary_returned"
    /\ ~ocr_result.success
    /\ tesseract_result' = Submit("secondary", engineOutcome["secondary"])
    /\ seqCalls' = [seqCalls EXCEPT !["secondary"] = @ + 1]
    /\ returned' = FallbackResult(tesseract_result')
    /\ pc' = "done"
    /\ UNCHANGED <<ocr_result, compared>>

SeqStep ==
    \/ Seq_CallPrimary
    \/ Seq_ReturnPrimary
    \/ Seq_CallSecondaryHybrid
    \/ Seq_Compare
    \/ Seq_ReturnPrimaryLow
    \/ Seq_Fallback

\* The caller: OCR failure aborts the pipeline (OcrUnavailable), a result
\* goes on to the parser and becomes a Receipt.
Caller_Finish ==
    /\ pc = "done"
    /\ pipeline = "running"
    /\ pipeline' = IF returned.success THEN "receipt" ELSE "OcrUnavailable"

----------------------------------------------------------------------------
(* Eager orchestrator: both calls are issued at once and the selection     *)
(* rule of the orchestrator is applied once the results it needs are in.   *)

\* 500 * score of a candidate
RuleScore(r) ==
    200 * (IF r.confidence = NoConf THEN 0 ELSE r.confidence)
        + 30 * Min(500, TextLen(r.text))
        + 150 * Min(100, 2 * ValidWords(r.text))

Tagged(r) == [r EXCEPT !.hybrid_mode = TRUE, !.comparison_score = Score50(r)]

PrimaryGoodEnough(p) ==
    p.success /\ (p.confidence = NoConf \/ p.confidence >= 70)

SelectionRule(p, s) ==
    IF PrimaryGoodEnough(p) THEN p
    ELSE IF ~p.success THEN s
    ELSE IF ~s.success THEN p
    ELSE IF RuleScore(s) > RuleScore(p) THEN Tagged(s)
    ELSE Tagged(p)

Finished(e) == task[e] \in {"completed", "timedOut", "lateCompleted"}

Eager_Issue ==
    /\ epc = "start"
    /\ task' = [e \in Engines |-> "running"]
    /\ eCalls' = [e \in Engines |-> eCalls[e] + 1]
    /\ epc' = "waiting"
    /\ UNCHANGED <<taskResult, lateOutput, eReturned>>

\* an engine call returns, or its timeout expires
Eager_Finish(e) ==
    /\ task[e] = "running"
    /\ task' = [task EXCEPT ![e] =
                   IF engineOutcome[e].kind = "timeout" THEN "timedOut"
                   ELSE "completed"]
    /\ taskResult' = [taskResult EXCEPT ![e] = Submit(e, engineOutcome[e])]
    /\ UNCHANGED <<epc, lateOutput, eReturned, eCalls>>

\* a call that timed out completes afterwards; nobody reads its output
Eager_LateCompletion(e) ==
    /\ task[e] = "timedOut"
    /\ task' = [task EXCEPT ![e] = "lateCompleted"]
    /\ lateOutput' = [lateOutput EXCEPT ![e] = engineOutcome[e].text]
    /\ UNCHANGED <<epc, taskResult, eReturned, eCalls>>

Eager_Decide ==
    /\ epc = "waiting"
    /\ Finished("primary")
    /\ PrimaryGoodEnough(taskResult["primary"]) \/ Finished("secondary")
    /\ eReturned' = SelectionRule(taskResult["primary"], taskResult["secondary"])
    /\ task' = [e \in Engines |->
                   IF task[e] = "running" THEN "abandoned" ELSE task[e]]
    /\ epc' = "done"
    /\ UNCHANGED <<taskResult, lateOutput, eCalls>>

EagerStep ==
    \/ Eager_Issue
    \/ \E e \in Engines : Eager_Finish(e)
    \/ \E e \in Engines : Eager_LateCompletion(e)
    \/ Eager_Decide

----------------------------------------------------------------------------
(* The orchestrator specification *)

OcrIdle ==
    /\ pc = "start"
    /\ ocr_result = NoResult
    /\ tesseract_result = NoResult
    /\ returned = NoResult
    /\ seqCalls = [e \in Engines |-> 0]
    /\ compared = FALSE
    /\ pipeline = "running"
    /\ epc = "start"
    /\ task = [e \in Engines |-> "idle"]
    /\ taskResult = [e \in Engines |-> NoResult]
    /\ lateOutput = [e \in Engines |-> EmptyText]
    /\ eReturned = NoResult
    /\ eCalls = [e \in Engines |-> 0]

ParseIdle ==
    /\ lines = <<>>
    /\ pos = 0
    /\ parentPrice = 0
    /\ parentRole = "none"
    /\ roles = <<>>
    /\ items = <<>>
    /\ format = "none"
    /\ fLines = <<>>
    /\ fSubtotal = 0
    /\ rWarnings = {}

TotalsIdle ==
    /\ tLines = <<>>
    /\ tPos = 0
    /\ tParsed = <<>>
    /\ tTotal = 0
    /\ tTotalLine = 0
    /\ tSubtotal = 0

CleanIdle ==
    /\ cName = <<>>
    /\ cPath = "none"
    /\ cOnce = <<>>
    /\ cTwice = <<>>
    /\ cStage = "idle"
    /\ cItems = <<>>

FamilyIdle ==
    /\ families = <<>>
    /\ invites = <<>>
    /\ fNow = 0
    /\ fJoins = <<>>
    /\ fCalls = 0
    /\ fLast = <<>>

NotifyIdle ==
    /\ nNow = 0
    /\ notes = <<>>
    /\ nHanded = {}

Init ==
    /\ engineOutcome \in [Engines -> Outcomes]
    /\ OcrIdle
    /\ ParseIdle
    /\ TotalsIdle
    /\ CleanIdle
    /\ FamilyIdle
    /\ NotifyIdle

Next ==
    \/ /\ SeqStep
       /\ UNCHANGED <<engineOutcome, pipeline, epc, task, taskResult,
                      lateOutput, eReturned, eCalls>>
       /\ UNCHANGED <<parseVars, totalsVars, cleanVars, familyVars, notifyVars>>
    \/ /\ Caller_Finish
       /\ UNCHANGED <<engineOutcome, pc, ocr_result, tesseract_result,
                      returned, seqCalls, compared, epc, task, taskResult,
                      lateOutput, eReturned, eCalls>>
       /\ UNCHANGED <<parseVars, totalsVars, cleanVars, familyVars, notifyVars>>
    \/ /\ EagerStep
       /\ UNCHANGED <<engineOutcome, pc, ocr_result, tesseract_result,
                      returned, seqCalls, compared, pipeline>>
       /\ UNCHANGED <<parseVars, totalsVars, cleanVars, familyVars, notifyVars>>

Spec == Init /\ [][Next]_vars

----------------------------------------------------------------------------
(* Properties of the orchestrator *)

\* r is the result the adapter of engine e delivered for this image
IsResultOf(r, e) ==
    /\ r.ocr_engine = e
    /\ r.success = (engineOutcome[e].kind = "success")
    /\ r.text = (IF r.success THEN engineOutcome[e].text ELSE EmptyText)
    /\ r.confidence = (IF r.success THEN engineOutcome[e].confidence ELSE NoConf)

LowConfidence(r) == r.success /\ r.confidence # NoConf /\ r.confidence < 70

\* C1: when the primary call succeeds with confidence >= 70 the orchestrator
\* returns the primary result, never invokes the secondary engine in that
\* run, and the result is not tagged hybrid.
C1_GoodPrimaryReturnedAlone ==
    (pc # "start" /\ ocr_result.success /\ ocr_result.confidence >= 70) =>
        /\ seqCalls["secondary"] = 0
        /\ pc \in {"primary_returned", "done"}
        /\ pc = "done" =>
            /\ IsResultOf(returned, "primary")
            /\ ~returned.hybrid_mode
            /\ returned.comparison_score = NoScore

C1_Witness ==
    /\ pc = "done"
    /\ ocr_result.success
    /\ ocr_result.confidence = 70
    /\ returned.ocr_engine = "primary"
    /\ engineOutcome["secondary"].kind = "success"

\* C2: when the primary succeeds with confidence < 70 and the secondary also
\* succeeds, the returned candidate is the one with the higher score
\* 0.40*confidence + 0.30*min(100, len/500*100) + 0.30*min(100, words/50*100)
\* and it is tagged hybrid whichever engine wins.
C2_HybridReturnsHigherScore ==
    (/\ pc = "done"
     /\ LowConfidence(ocr_result)
     /\ tesseract_result.success
     /\ tesseract_result.confidence # NoConf) =>
        /\ returned.hybrid_mode
        /\ \/ /\ IsResultOf(returned, "primary")
              /\ RuleScore(ocr_result) >= RuleScore(tesseract_result)
           \/ /\ IsResultOf(returned, "secondary")
              /\ RuleScore(tesseract_result) >= RuleScore(ocr_result)

C2_Witness ==
    /\ pc = "done"
    /\ LowConfidence(ocr_result)
    /\ tesseract_result.success
    /\ tesseract_result.confidence = 35
    /\ ocr_result.confidence = 69
    /\ returned.ocr_engine = "secondary"
    /\ returned.hybrid_mode

ResultVars ==
    {ocr_result, tesseract_result, returned, eReturned}
        \cup {taskResult[e] : e \in Engines}

C6_EagerEqualsSequential ==
    (pc = "done" /\ epc = "done") =>
        /\ eReturned.success = returned.success
        /\ eReturned.ocr_engine = returned.ocr_engine
        /\ eReturned.text = returned.text
        /\ eReturned.confidence = returned.confidence
        /\ eReturned.hybrid_mode = returned.hybrid_mode

C6_Witness ==
    /\ pc = "done"
    /\ epc = "done"
    /\ LowConfidence(ocr_result)
    /\ tesseract_result.success
    /\ RuleScore(ocr_result) = RuleScore(tesseract_result)
    /\ ocr_result.text # tesseract_result.text
    /\ eReturned.hybrid_mode

C26_TieGoesToPrimary ==
    (/\ pc = "done"
     /\ compared
     /\ RuleScore(ocr_result) = RuleScore(tesseract_result)) =>
        /\ IsResultOf(returned, "primary")
        /\ returned.hybrid_mode
        /\ returned.comparison_score * 10 = RuleScore(ocr_result)

\* a tie between candidates that differ in confidence and in text
C26_Witness ==
    /\ pc = "done"
    /\ compared
    /\ RuleScore(ocr_result) = RuleScore(tesseract_result)
    /\ ocr_result.confidence # tesseract_result.confidence
    /\ ocr_result.text # tesseract_result.text
    /\ returned.ocr_engine = "primary"

\* C27: when the primary succeeds with confidence < 70 and the secondary
\* then fails, the orchestrator returns the primary's low-confidence result,
\* not an error, and the result is not tagged hybrid; OcrUnavailable is
\* raised only when no engine produced a successful result.
C27_LowPrimaryKeptWhenSecondaryFails ==
    /\ (/\ pc = "done"
        /\ LowConfidence(ocr_result)
        /\ seqCalls["secondary"] = 1
        /\ ~tesseract_result.success) =>
           /\ IsResultOf(returned, "primary")
           /\ returned.success
           /\ ~returned.hybrid_mode
           /\ returned.comparison_score = NoScore
           /\ ~compared
           /\ pipeline # "OcrUnavailable"
    /\ pipeline = "OcrUnavailable" =>
           \A e \in Engines : engineOutcome[e].kind # "success"

\* the pipeline went on with a low-confidence primary after the secondary
\* timed out
C27_Witness ==
    /\ pipeline = "receipt"
    /\ LowConfidence(ocr_result)
    /\ engineOutcome["secondary"].kind = "timeout"
    /\ seqCalls["secondary"] = 1
    /\ returned.confidence = 35

----------------------------------------------------------------------------
(* Hierarchical receipt parser (intelligent_receipt_parser.py).            *)
(* A line is its indentation, whether is_blacklisted holds of it, its      *)
(* leading integer (0: none), whether an item code of three or more digits *)
(* follows that integer, and the shape of its price token: "dec2" as in    *)
(* 6.99, "int" as in $103, "none".  The name proper is one word.           *)

MaxIndent == 1
MaxLead == 2

NoPrice == 0

LeadForms ==
    {[lead |-> 0, code |-> FALSE]}
        \cup [lead : 1..MaxLead, code : {TRUE}]
        \cup [lead : 2..MaxLead, code : {FALSE}]

PriceShapes == {"none", "int", "dec2"}

\* weight: the line carries a weight annotation "<decimal><unit> NET"; such
\* a line has neither a leading integer nor an item code
\* term: the blacklisted term the line contains ("promo": promotional or
\* other vocabulary, "special", "total"), "none" when it has none;
\* bare: the term is the only text in front of the price ("SPECIAL  $0.99").
\* is_blacklisted holds of every such line but "TOTAL $34.50".
\* A line nested one level below the sub-items is a plain name, with or
\* without a price.
LineKinds ==
    {[indent |-> 0, blacklisted |-> TRUE, lead |-> 0, code |-> FALSE,
      weight |-> FALSE, shape |-> sh, term |-> "promo", bare |-> FALSE] :
          sh \in {"none", "dec2"}}
    \cup {[indent |-> 0, blacklisted |-> TRUE, lead |-> 0, code |-> FALSE,
           weight |-> FALSE, shape |-> "dec2", term |-> "special",
           bare |-> b] : b \in BOOLEAN}
    \cup {[indent |-> 0, blacklisted |-> FALSE, lead |-> 0, code |-> FALSE,
           weight |-> FALSE, shape |-> "dec2", term |-> "total",
           bare |-> TRUE]}
    \cup {[indent |-> i, blacklisted |-> FALSE, lead |-> lf.lead,
           code |-> lf.code, weight |-> FALSE, shape |-> sh,
           term |-> "none", bare |-> FALSE] :
              i \in 0..MaxIndent, lf \in LeadForms, sh \in PriceShapes}
    \cup {[indent |-> i, blacklisted |-> FALSE, lead |-> 0,
           code |-> FALSE, weight |-> TRUE, shape |-> "dec2",
           term |-> "none", bare |-> FALSE] :
              i \in 0..MaxIndent}
    \cup {[indent |-> MaxIndent + 1, blacklisted |-> FALSE, lead |-> 0,
           code |-> FALSE, weight |-> FALSE, shape |-> sh,
           term |-> "none", bare |-> FALSE] : sh \in {"none", "dec2"}}

Receipts == UNION {[1..n -> LineKinds] : n \in 1..MaxLines}

\* value of the price token of line i, in cents; every line has its own
PriceAt(i) == 100 * i + 99

\* quantities are decimals ("qty=1.0"); they are held in thousandths
Qty(n) == 1000 * n

\* decimal of the weight annotation of line i, in thousandths: "0.778kg NET"
WeightAt(i) == 778 + i

HasPrice(l) == l.shape # "none"

\* sub_has_price = bool(re.search(r'\$?\d+\.\d{2}', next_stripped))
sub_has_price(l) == l.shape = "dec2"

\* extract_price_and_quantity, quantity: a leading integer in front of an
\* item code is taken as the quantity ("2 0230 Salami" -> 2); a leading
\* integer in front of the name is left in the name ("2 Burritos" -> 1).
\* The weight pattern is matched, and the quantity stays at the default 1.0.
\* variant: the leading integer is the quantity also when there is none
ExtractQuantityNoDefault(l) == Qty(l.lead)

ExtractQuantity(l) == IF l.lead > 0 /\ l.code THEN Qty(l.lead) ELSE Qty(1)

\* the item record has name, price, quantity and total: every quantity is a
\* count, also on a line with a weight annotation
ExtractUnit(l) == "count"

\* name after extraction and clean_item_name: item codes and the number in
\* front of them are stripped, an embedded multiplier stays
CleanedName(l) ==
    IF l.term # "none" /\ l.bare THEN <<l.term>>
    ELSE IF l.term # "none" THEN <<l.term, "word">>
    ELSE IF l.lead > 0 /\ ~l.code THEN <<"int", "word">>
    ELSE <<"word">>

\* extract_price_and_quantity(line) -> quantity, price, name
extract_price_and_quantity(l, i) ==
    [line |-> i, name |-> CleanedName(l), quantity |-> ExtractQuantity(l),
     unit |-> ExtractUnit(l), price |-> PriceAt(i), warnings |-> {}]

NextIndented(i) == i < Len(lines) /\ lines[i + 1].indent > 0

\* variant: an unindented line without a price that no indented line
\* follows keeps the role of the line in front of it
ParentRoleFromContext(l, nextIndented) ==
    IF l.blacklisted THEN "Noise"
    ELSE IF HasPrice(l) /\ nextIndented THEN "StandaloneItem"
    ELSE IF HasPrice(l) \/ nextIndented THEN "GroupHeader"
    ELSE IF parentRole = "none" THEN "Noise"
    ELSE parentRole

\* role of an unindented line: a blacklisted line is dropped; a priced line
\* is an item when indented lines follow, and is treated as a header when
\* it stands on its own
ParentRole(l, nextIndented) ==
    IF l.blacklisted THEN "Noise"
    ELSE IF HasPrice(l) /\ nextIndented THEN "StandaloneItem"
    ELSE IF HasPrice(l) \/ nextIndented THEN "GroupHeader"
    ELSE "Noise"

\* an unindented line: the parent of the indented lines that follow
Parse_Parent ==
    /\ format = "hierarchical"
    /\ pos >= 1 /\ pos <= Len(lines)
    /\ lines[pos].indent = 0
    /\ LET l == lines[pos]
           role == ParentRole(l, NextIndented(pos))
       IN /\ roles' = Append(roles, role)
          /\ parentRole' = role
          /\ parentPrice' = IF HasPrice(l) THEN PriceAt(pos) ELSE NoPrice
          /\ items' = IF role = "StandaloneItem"
                      THEN Append(items, extract_price_and_quantity(l, pos))
                      ELSE items
    /\ pos' = pos + 1
    /\ UNCHANGED <<lines, format, fLines, fSubtotal, rWarnings>>

\* an indented line with a price of its own; parsed also when the parent
\* is blacklisted
Parse_SubItemOwnPrice ==
    /\ format = "hierarchical"
    /\ pos >= 1 /\ pos <= Len(lines)
    /\ lines[pos].indent > 0
    /\ sub_has_price(lines[pos])
    /\ roles' = Append(roles, "SubItemOwnPrice")
    /\ items' = Append(items, extract_price_and_quantity(lines[pos], pos))
    /\ pos' = pos + 1
    /\ UNCHANGED <<lines, parentPrice, parentRole,
                   format, fLines, fSubtotal, rWarnings>>

\* an indented line without a recognised price: sub_price = price
Parse_SubItemInherited ==
    /\ format = "hierarchical"
    /\ pos >= 1 /\ pos <= Len(lines)
    /\ lines[pos].indent > 0
    /\ ~sub_has_price(lines[pos])
    /\ roles' = Append(roles, "SubItemInherited")
    /\ items' = Append(items,
                   [line |-> pos, name |-> CleanedName(lines[pos]),
                    quantity |-> Qty(1), unit |-> "count",
                    price |-> parentPrice, warnings |-> {}])
    /\ pos' = pos + 1
    /\ UNCHANGED <<lines, parentPrice, parentRole,
                   format, fLines, fSubtotal, rWarnings>>

----------------------------------------------------------------------------
(* Flat-format receipts: "Item Name  Qty  Rate  Amount" *)

MaxQty == 2

\* the column-header line, an item row with its Qty column (0: the column
\* reads 0), a subtotal line that agrees or not with the printed amounts,
\* and a total line
FlatKinds ==
    {[kind |-> "colheader", qty |-> 0, agrees |-> TRUE]}
    \cup {[kind |-> "item", qty |-> q, agrees |-> TRUE] : q \in 0..MaxQty}
    \cup {[kind |-> "subtotal", qty |-> 0, agrees |-> a] : a \in BOOLEAN}
    \cup {[kind |-> "total", qty |-> 0, agrees |-> TRUE]}

FlatReceipts == UNION {[1..n -> FlatKinds] : n \in 1..MaxLines}

\* Rate column of line i, in cents: "430.0"
RateAt(i) == 1000 * i + 30

\* Amount column of line i: Qty x Rate as printed
AmountAt(f, i) == IF f[i].qty > 0 THEN f[i].qty * RateAt(i) ELSE RateAt(i)

RECURSIVE SumAmounts(_, _)
SumAmounts(f, n) ==
    IF n = 0 THEN 0
    ELSE SumAmounts(f, n - 1)
         + (IF f[n].kind = "item" THEN AmountAt(f, n) ELSE 0)

\* value printed on a subtotal line
SubtotalAt(f, i) ==
    IF f[i].agrees THEN SumAmounts(f, Len(f))
    ELSE SumAmounts(f, Len(f)) + 100

\* quantity of a flat row: the "qty x price" column, else the default 1.0
\* with the item flagged
FlatQuantity(row) == IF row.qty > 0 THEN Qty(row.qty) ELSE Qty(1)

FlatWarnings(row) == IF row.qty > 0 THEN {} ELSE {"QuantityParseFailure"}

\* price of a flat row: the rightmost decimal token of the line
FlatPrice(f, i) == AmountAt(f, i)

FlatItem(f, i) ==
    [line |-> i, name |-> <<"word">>, quantity |-> FlatQuantity(f[i]),
     unit |-> "count", price |-> FlatPrice(f, i),
     warnings |-> FlatWarnings(f[i])]

RECURSIVE SumItems(_, _)
\* sum(price x quantity) over the first n items, in cents
SumItems(its, n) ==
    IF n = 0 THEN 0
    ELSE SumItems(its, n - 1) + (its[n].price * its[n].quantity) \div Qty(1)

\* last subtotal line of the text, 0: none
LastSubtotalLine(f) ==
    IF \E i \in 1..Len(f) : f[i].kind = "subtotal"
    THEN CHOOSE i \in 1..Len(f) :
            /\ f[i].kind = "subtotal"
            /\ \A j \in (i + 1)..Len(f) : f[j].kind # "subtotal"
    ELSE 0

\* variant: a total line passes the filter ("TOTAL $34.50" as an item)
IsItemRowOrTotal(row) == row.kind \in {"item", "total"}

\* the column-header line and the total lines are filtered out
IsItemRow(row) == row.kind = "item"

\* one line of a flat text: an item row gives an item, every other line none
Flat_Line ==
    /\ format = "flat"
    /\ pos >= 1 /\ pos <= Len(fLines)
    /\ roles' = Append(roles, IF IsItemRow(fLines[pos])
                              THEN "StandaloneItem" ELSE "Noise")
    /\ items' = IF IsItemRow(fLines[pos])
                THEN Append(items, FlatItem(fLines, pos))
                ELSE items
    /\ pos' = pos + 1
    /\ UNCHANGED <<lines, parentPrice, parentRole,
                   format, fLines, fSubtotal, rWarnings>>

\* after the last line: the subtotal is extracted and compared with the
\* sum of the items; a deviation is a warning
Flat_Finish ==
    /\ format = "flat"
    /\ pos = Len(fLines) + 1
    /\ LET s == LastSubtotalLine(fLines)
           sub == IF s = 0 THEN 0 ELSE SubtotalAt(fLines, s)
       IN /\ fSubtotal' = sub
          /\ rWarnings' = IF s # 0 /\ SumItems(items, Len(items)) # sub
                          THEN rWarnings \cup {"TotalsMismatch"}
                          ELSE rWarnings
    /\ pos' = pos + 1
    /\ UNCHANGED <<lines, parentPrice, parentRole, roles, items,
                   format, fLines>>

ParseStep ==
    \/ Parse_Parent
    \/ Parse_SubItemOwnPrice
    \/ Parse_SubItemInherited
    \/ Flat_Line
    \/ Flat_Finish

\* the Format Detector has classified the text
InitParse ==
    /\ engineOutcome = [e \in Engines |->
                           [kind |-> "failure", text |-> EmptyText,
                            confidence |-> NoConf]]
    /\ OcrIdle
    /\ TotalsIdle
    /\ CleanIdle
    /\ FamilyIdle
    /\ NotifyIdle
    /\ \/ format = "hierarchical" /\ lines \in Receipts /\ fLines = <<>>
       \/ format = "flat" /\ lines = <<>> /\ fLines \in FlatReceipts
    /\ pos = 1
    /\ parentPrice = NoPrice
    /\ parentRole = "none"
    /\ roles = <<>>
    /\ items = <<>>
    /\ fSubtotal = 0
    /\ rWarnings = {}

NextParse == ParseStep /\ UNCHANGED <<ocrVars, totalsVars, cleanVars,
                             familyVars, notifyVars>>

FlatDone == format = "flat" /\ pos = Len(fLines) + 2

SpecParse == InitParse /\ [][NextParse]_vars

ParseDone == pos > Len(lines) /\ Len(lines) > 0

ItemsOfLine(i) == {k \in 1..Len(items) : items[k].line = i}

----------------------------------------------------------------------------
(* Properties of the hierarchical parser *)

\* the indented lines directly under line h
SubLines(h) ==
    {j \in (h + 1)..Len(lines) :
        \A m \in (h + 1)..j : lines[m].indent > 0}

\* line h is a blacklisted group header whose indented lines all carry a
\* price of their own
BlacklistedGroup(h) ==
    /\ lines[h].indent = 0
    /\ lines[h].blacklisted
    /\ ~HasPrice(lines[h])
    /\ SubLines(h) # {}
    /\ \A j \in SubLines(h) : HasPrice(lines[j])

\* C8: a blacklisted group header followed by k indented lines that each
\* carry their own price yields exactly k items, each priced with its own
\* line's price, and the header itself yields no item.
C8_BlacklistedHeaderSubItemsOwnPrice ==
    ParseDone =>
        \A h \in 1..Len(lines) :
            BlacklistedGroup(h) =>
                /\ ItemsOfLine(h) = {}
                /\ \A j \in SubLines(h) :
                      /\ Cardinality(ItemsOfLine(j)) = 1
                      /\ \A k \in ItemsOfLine(j) : items[k].price = PriceAt(j)

\* line i is unindented, carries a price, is not blacklisted and is not
\* followed by an indented line
StandsAlone(i) ==
    /\ lines[i].indent = 0
    /\ ~lines[i].blacklisted
    /\ HasPrice(lines[i])
    /\ ~NextIndented(i)

\* C9: an unindented line that carries a price and is not followed by an
\* indented line is classified StandaloneItem and produces an item with
\* that price; it is never classified as a GroupHeader.
C9_StandaloneLineIsItem ==
    \A i \in 1..Len(roles) :
        StandsAlone(i) =>
            /\ roles[i] = "StandaloneItem"
            /\ \E k \in ItemsOfLine(i) : items[k].price = PriceAt(i)

\* C10: for an item line that starts with an integer followed by an item
\* code of three or more digits the leading integer is never the quantity:
\* both tokens leave the name and the quantity is the default 1, whatever
\* the leading integer.
C10_LineNumberIsNotQuantity ==
    \A k \in 1..Len(items) :
        LET l == lines[items[k].line]
        IN (l.lead > 0 /\ l.code) =>
              /\ items[k].quantity = Qty(1)
              /\ items[k].name = <<"word">>

\* C11: an item line whose name text starts with an integer multiplier n
\* followed by a name word ("2 GYRO $50.00") gives quantity n, a name
\* without the leading integer, and the line's price.
C11_LeadingMultiplierIsQuantity ==
    \A k \in 1..Len(items) :
        LET l == IF format = "hierarchical" THEN lines[items[k].line]
                 ELSE [lead |-> 0, code |-> FALSE, shape |-> "none",
                       term |-> "none", bare |-> FALSE]
        IN (l.lead > 0 /\ ~l.code /\ HasPrice(l)) =>
              /\ items[k].quantity = Qty(l.lead)
              /\ items[k].name = <<"word">>
              /\ items[k].price = PriceAt(items[k].line)

\* C12: an item line with a weight pattern "<decimal><unit> NET", no leading
\* multiplier and no line/item-code pair gives quantity = the decimal and
\* unit = the weight unit; the quantity is not defaulted to 1.0.
C12_WeightIsQuantity ==
    \A k \in 1..Len(items) :
        (format = "hierarchical" /\ lines[items[k].line].weight) =>
            /\ items[k].quantity = WeightAt(items[k].line)
            /\ items[k].unit = "kg"

\* the items are one per item row of the flat text, in document order
OneItemPerRow ==
    /\ Len(items) = Cardinality({i \in 1..Len(fLines) :
                                    fLines[i].kind = "item"})
    /\ \A k \in 1..Len(items) : fLines[items[k].line].kind = "item"
    /\ \A k \in 1..Len(items) : \A m \in 1..Len(items) :
           k < m => items[k].line < items[m].line

Abs(x) == IF x < 0 THEN 0 - x ELSE x

ConsistentFlat ==
    /\ LastSubtotalLine(fLines) # 0
    /\ fLines[LastSubtotalLine(fLines)].agrees
    /\ \A i \in 1..Len(fLines) :
           fLines[i].kind = "item" => fLines[i].qty = 1

PriceNotParsed(i) ==
    /\ lines[i].indent > 0
    /\ HasPrice(lines[i])
    /\ ~sub_has_price(lines[i])

\* C19: parsing always returns a Receipt; an item line whose price cannot be
\* parsed is kept as an item with price = null and a warning, and a
\* mismatch between the totals and the sum of the items only adds a warning.
C19_PriceFailureIsFlagged ==
    /\ ParseDone =>
          \A i \in 1..Len(lines) :
              PriceNotParsed(i) =>
                  \E k \in ItemsOfLine(i) :
                      /\ items[k].price = NoPrice
                      /\ items[k].warnings # {}
    /\ (FlatDone /\ LastSubtotalLine(fLines) # 0
           /\ SumItems(items, Len(items)) # fSubtotal)
          => "TotalsMismatch" \in rWarnings

BLACKLISTED_WORDS ==
    {"subtotal", "total", "tax", "change", "balance", "loyalty",
     "special", "discount", "payment", "cash", "credit", "debit",
     "thank", "welcome", "date", "time", "store", "receipt"}

IsContinuation(i) ==
    /\ lines[i].indent = 0
    /\ ~lines[i].blacklisted
    /\ ~HasPrice(lines[i])
    /\ ~NextIndented(i)

Ancestor(i) ==
    LET c == {j \in 1..(i - 1) :
                 /\ lines[j].indent < lines[i].indent
                 /\ roles[j] \in {"StandaloneItem", "GroupHeader",
                                   "SubItemOwnPrice"}}
    IN IF c = {} THEN 0 ELSE CHOOSE j \in c : \A m \in c : m <= j

AncestorPrice(i) ==
    IF Ancestor(i) = 0 \/ ~HasPrice(lines[Ancestor(i)]) THEN NoPrice
    ELSE PriceAt(Ancestor(i))

\* C23: an indented line without a price gets the price of the nearest
\* line above it that has a strictly lower indent level and is a
\* StandaloneItem, GroupHeader or SubItemOwnPrice, never that of another
\* line.
C23_InheritsFromNearestAncestor ==
    ParseDone =>
        \A i \in 1..Len(lines) :
            (lines[i].indent > 0 /\ ~HasPrice(lines[i])) =>
                /\ roles[i] = "SubItemInherited"
                /\ \A k \in ItemsOfLine(i) :
                       items[k].price = AncestorPrice(i)

\* unindented, without a price, not followed by an indented line and not
\* blacklisted
Uncertain(i) ==
    /\ lines[i].indent = 0
    /\ ~lines[i].blacklisted
    /\ ~HasPrice(lines[i])
    /\ ~NextIndented(i)

C25_BareTermWithPriceIsItem ==
    \A i \in 1..Len(roles) :
        (format = "hierarchical" /\ lines[i].term = "special") =>
            IF lines[i].bare
            THEN /\ roles[i] \in {"StandaloneItem", "SubItemOwnPrice"}
                 /\ \E k \in ItemsOfLine(i) : items[k].price = PriceAt(i)
            ELSE /\ roles[i] = "Noise"
                 /\ ItemsOfLine(i) = {}

----------------------------------------------------------------------------
(* Totals extractor *)

MaxTotalLines == 3

\* pieces of a numeric token: a run of digits (its value and its width), a
\* thousands-separator comma, the decimal point
Digits(v, w) == [kind |-> "digits", val |-> v, width |-> w]
Comma == [kind |-> "comma", val |-> 0, width |-> 0]
Point == [kind |-> "point", val |-> 0, width |-> 0]

\* "34.50", "183.60", "1,060.0", "1,183.60" with the amount each denotes,
\* in cents
AmountTokens ==
    {[text |-> <<Digits(34, 2), Point, Digits(50, 2)>>, value |-> 3450],
     [text |-> <<Digits(183, 3), Point, Digits(60, 2)>>, value |-> 18360],
     [text |-> <<Digits(1, 1), Comma, Digits(60, 3), Point, Digits(0, 1)>>,
      value |-> 106000],
     [text |-> <<Digits(1, 1), Comma, Digits(183, 3), Point, Digits(60, 2)>>,
      value |-> 118360]}

\* the words in front of the amount
TotalLabels ==
    {<<"total">>, <<"grand", "total">>, <<"subtotal">>, <<"m", "subtotal">>,
     <<"balance", "due">>, <<"visa">>}

TotalLines == [label : TotalLabels, token : AmountTokens]

TotalTexts == UNION {[1..n -> TotalLines] : n \in 1..MaxTotalLines}

RECURSIVE Pow10(_)
Pow10(w) == IF w = 0 THEN 1 ELSE 10 * Pow10(w - 1)

IsComma(piece) == piece.kind = "comma"

StripCommas(text) == SelectSeq(text, LAMBDA piece : ~IsComma(piece))

\* index of the decimal point
PointAt(text) == CHOOSE i \in 1..Len(text) : text[i].kind = "point"

RECURSIVE IntegerPart(_, _)
\* the digits of the pieces 1..n read as one number
IntegerPart(text, n) ==
    IF n = 0 THEN 0
    ELSE IntegerPart(text, n - 1) * Pow10(text[n].width) + text[n].val

\* cents of the fraction after the decimal point: ".0" is 0, ".60" is 60
Cents(piece) == IF piece.width = 1 THEN 10 * piece.val ELSE piece.val

\* float() of a token without commas
ToAmount(text) ==
    100 * IntegerPart(text, PointAt(text) - 1) + Cents(text[PointAt(text) + 1])

\* variant: the number pattern is matched on the token as it stands, and
\* takes the digits next to the decimal point ("1,183.60" -> 183.60)
ParseAmountKeepCommas(text) ==
    100 * text[PointAt(text) - 1].val + Cents(text[PointAt(text) + 1])

\* commas are stripped before the token is parsed
ParseAmount(text) == ToAmount(StripCommas(text))

\* variant: any label with the letters "total" qualifies
QualifiesBySubstring(label) ==
    label[Len(label)] \in {"total", "subtotal"}

\* exact "total" / "grand total", not prefixed by "sub"
QualifiesAsTotal(label) == label \in {<<"total">>, <<"grand", "total">>}

IsSubtotalLabel(label) == \E i \in 1..Len(label) : label[i] = "subtotal"

IsBalanceDue(label) == label = <<"balance", "due">>

\* variant: the first qualifying line is kept
KeepsFirstTotal(prevLine) == prevLine = 0

\* a later qualifying line replaces the total of an earlier one
ReplacesTotal(prevLine) == TRUE

\* the extractor reads one line
Totals_Line ==
    /\ tPos >= 1 /\ tPos <= Len(tLines)
    /\ LET l == tLines[tPos]
           v == ParseAmount(l.token.text)
           take == QualifiesAsTotal(l.label) /\ ReplacesTotal(tTotalLine)
       IN /\ tParsed' = Append(tParsed, v)
          /\ tTotal' = IF take THEN v ELSE tTotal
          /\ tTotalLine' = IF take THEN tPos ELSE tTotalLine
          /\ tSubtotal' = IF ~QualifiesAsTotal(l.label)
                             /\ IsSubtotalLabel(l.label)
                          THEN v ELSE tSubtotal
    /\ tPos' = tPos + 1
    /\ UNCHANGED tLines

\* last "balance due" line, 0: none
LastBalanceDue ==
    IF \E i \in 1..Len(tLines) : IsBalanceDue(tLines[i].label)
    THEN CHOOSE i \in 1..Len(tLines) :
            /\ IsBalanceDue(tLines[i].label)
            /\ \A j \in (i + 1)..Len(tLines) : ~IsBalanceDue(tLines[j].label)
    ELSE 0

\* after the last line: without a total line the balance due is the total
Totals_Finish ==
    /\ tPos = Len(tLines) + 1
    /\ Len(tLines) > 0
    /\ IF tTotalLine = 0 /\ LastBalanceDue # 0
       THEN /\ tTotal' = tParsed[LastBalanceDue]
            /\ tTotalLine' = LastBalanceDue
       ELSE UNCHANGED <<tTotal, tTotalLine>>
    /\ tPos' = tPos + 1
    /\ UNCHANGED <<tLines, tParsed, tSubtotal>>

TotalsStep ==
    \/ Totals_Line
    \/ Totals_Finish

InitTotals ==
    /\ engineOutcome = [e \in Engines |->
                           [kind |-> "failure", text |-> EmptyText,
                            confidence |-> NoConf]]
    /\ OcrIdle
    /\ ParseIdle
    /\ CleanIdle
    /\ FamilyIdle
    /\ NotifyIdle
    /\ tLines \in TotalTexts
    /\ tPos = 1
    /\ tParsed = <<>>
    /\ tTotal = 0
    /\ tTotalLine = 0
    /\ tSubtotal = 0

NextTotals == TotalsStep /\ UNCHANGED <<ocrVars, parseVars, cleanVars,
                             familyVars, notifyVars>>

SpecTotals == InitTotals /\ [][NextTotals]_vars

TotalsDone == Len(tLines) > 0 /\ tPos = Len(tLines) + 2

\* lines with exactly the label "total" or "grand total"
TotalLinesOf(t) ==
    {i \in 1..Len(t) : t[i].label \in {<<"total">>, <<"grand", "total">>}}

----------------------------------------------------------------------------
(* Properties of the totals extractor *)

C16_LastTotalLineWins ==
    (TotalsDone /\ TotalLinesOf(tLines) # {}) =>
        \E i \in TotalLinesOf(tLines) :
            /\ \A j \in TotalLinesOf(tLines) : j <= i
            /\ tTotalLine = i
            /\ tTotal = tLines[i].token.value

\* two total lines with different amounts, the larger one first
C16_Witness ==
    /\ TotalsDone
    /\ \E i \in TotalLinesOf(tLines) : \E j \in TotalLinesOf(tLines) :
          /\ i < j
          /\ tLines[i].token.value > tLines[j].token.value
          /\ tTotal = tLines[j].token.value

----------------------------------------------------------------------------
(* Name Cleaner: clean_item_name *)

MaxNameLen == 4

\* tokens of a raw item name:
\*   "word"     a name word of three or more letters, title case
\*   "WORD"     the same in capitals
\*   "ab"       a word of two letters
\*   "code"     an item code of 3 to 6 digits
\*   "lineref"  "Line <n>"
\*   "une"      the misread "une <n>"
\*   "paren"    a parenthesised modifier "(1L)"
\*   "buy"      "Buy One", "Buy 2"
\*   "buy3"     "Buy Three": a number word the pattern does not list
\*   "get"      "Get One", "Get 1"
\*   "garble"   a cluster of punctuation, not "," or ";"
NameTokens ==
    {"word", "WORD", "ab", "code", "lineref", "une", "paren", "buy", "buy3",
     "get", "garble"}

Names == UNION {[1..n -> NameTokens] : n \in 1..MaxNameLen}

HasPair(n, a, b) == \E k \in 1..(Len(n) - 1) : n[k] = a /\ n[k + 1] = b

\* Step 1: ^.*?buy\s+(?:one|two|\d+)[,\s;]*(?:get|receive)\s+(?:one|two|\d+).*$
Step1(n) == IF HasPair(n, "buy", "get") THEN <<>> ELSE n

\* index of the first "une" that has text in front of it, 0: none
FirstUne(n) ==
    IF \E k \in 2..Len(n) : n[k] = "une"
    THEN CHOOSE k \in 2..Len(n) :
            n[k] = "une" /\ \A j \in 2..(k - 1) : n[j] # "une"
    ELSE 0

CutAtUne(n) == IF FirstUne(n) = 0 THEN n ELSE SubSeq(n, 1, FirstUne(n) - 1)

\* Step 2: \s*line\s+\d+\s* everywhere, then \s+une\s*\d*.*$
Step2(n) == CutAtUne(SelectSeq(n, LAMBDA t : t # "lineref"))

\* Step 3: ^\d{3,6}[:\s]+ : the code at the start of the name, with the
\* separator after it
Step3(n) == IF Len(n) >= 2 /\ n[1] = "code" THEN Tail(n) ELSE n

\* Step 4: garbled text and punctuation clusters
Step4(n) == SelectSeq(n, LAMBDA t : t # "garble")

\* Step 5: \s*\(\s*\w+\s*\)\s*$ : the parenthesis at the end of the name
Step5(n) ==
    IF n # <<>> /\ n[Len(n)] = "paren" THEN SubSeq(n, 1, Len(n) - 1) ELSE n

TitleCase(t) == IF t = "WORD" THEN "word" ELSE t

\* Step 6: reject a name shorter than 3 characters, else title case
Step6(n) ==
    IF n = <<"ab">> THEN <<>> ELSE [k \in 1..Len(n) |-> TitleCase(n[k])]

clean_item_name(n) == Step6(Step5(Step4(Step3(Step2(Step1(n))))))

\* the rules for the name of a sub-item that inherits its price
_clean_sub_item_name(n) == clean_item_name(n)

\* promotional lines: any text containing "buy one get one"
is_blacklisted(n) == HasPair(n, "buy", "get")

\* a standalone item or a sub-item with its own price
Clean_Item ==
    /\ cStage = "raw"
    /\ cPath \in {"StandaloneItem", "SubItemOwnPrice"}
    /\ cOnce' = clean_item_name(cName)
    /\ cStage' = "cleaned"
    /\ UNCHANGED <<cName, cPath, cTwice, cItems>>

\* a sub-item that inherits the price of its parent
Clean_SubItem ==
    /\ cStage = "raw"
    /\ cPath = "SubItemInherited"
    /\ cOnce' = _clean_sub_item_name(cName)
    /\ cStage' = "cleaned"
    /\ UNCHANGED <<cName, cPath, cTwice, cItems>>

\* filtering after cleaning: a rejected or blacklisted name gives no item
Clean_Filter ==
    /\ cStage = "cleaned"
    /\ cItems' = IF cOnce # <<>> /\ ~is_blacklisted(cOnce)
                 THEN <<cOnce>> ELSE <<>>
    /\ cStage' = "filtered"
    /\ UNCHANGED <<cName, cPath, cOnce, cTwice>>

\* the cleaned name goes through the cleaner again
Clean_Again ==
    /\ cStage = "filtered"
    /\ cTwice' = clean_item_name(cOnce)
    /\ cStage' = "recleaned"
    /\ UNCHANGED <<cName, cPath, cOnce, cItems>>

CleanStep ==
    \/ Clean_Item
    \/ Clean_SubItem
    \/ Clean_Filter
    \/ Clean_Again

InitClean ==
    /\ engineOutcome = [e \in Engines |->
                           [kind |-> "failure", text |-> EmptyText,
                            confidence |-> NoConf]]
    /\ OcrIdle
    /\ ParseIdle
    /\ TotalsIdle
    /\ FamilyIdle
    /\ NotifyIdle
    /\ cName \in Names
    /\ cPath \in {"StandaloneItem", "SubItemOwnPrice", "SubItemInherited"}
    /\ cOnce = <<>>
    /\ cTwice = <<>>
    /\ cStage = "raw"
    /\ cItems = <<>>

NextClean == CleanStep /\ UNCHANGED <<ocrVars, parseVars, totalsVars,
                             familyVars, notifyVars>>

SpecClean == InitClean /\ [][NextClean]_vars

----------------------------------------------------------------------------
(* Properties of the Name Cleaner *)

\* C13: the Name Cleaner is idempotent: for every input name x,
\* clean(clean(x)) = clean(x), also for names with several leading digit
\* codes, repeated "Line <n>" references or nested promotional phrases.
C13_CleanerIdempotent ==
    cStage = "recleaned" => cTwice = cOnce

\* C14: no item has a name that contains promotional "buy ... get ..."
\* phrasing or a "Line <n>" reference, whichever path produced the item.
C14_NoPromoNoLineRef ==
    \A i \in 1..Len(cItems) :
        /\ \A k \in 1..Len(cItems[i]) : cItems[i][k] # "lineref"
        /\ \A k \in 1..(Len(cItems[i]) - 1) :
              ~(cItems[i][k] \in {"buy", "buy3"} /\ cItems[i][k + 1] = "get")

(***************************************************************************)
(* FamilyService (src/unnamed/part_004), QRCodeService (part_005) and the  *)
(* route POST /api/family/join (part_003).  Time is counted in weeks.  The *)
(* ids and invite codes the service draws from Date.now() and              *)
(* Math.random() are any value of a small set; nothing in the code checks  *)
(* a drawn value against the keys the maps already hold.                   *)
(***************************************************************************)
NumUsers == 2
NumFamilyIds == 2
NumCodes == 2
MaxClock == 2
MaxCalls == 3

UserIds == 1..NumUsers
FamilyIds == 1..NumFamilyIds
InviteCodes == 1..NumCodes

\* 7 * 24 * 60 * 60 * 1000 ms, one week
INVITE_TTL == 1

\* a falsy field of the request body
Missing == 0

NoError == "none"

\* Map.set(k, v)
MapSet(m, k, v) == [x \in (DOMAIN m) \cup {k} |-> IF x = k THEN v ELSE m[x]]

isInviteExpired(expiresAt) == fNow > expiresAt

NotJson == [type |-> "not json", inviteCode |-> Missing, expiresAt |-> 0]

\* what a caller can pass as qrData
QRData ==
    {NotJson} \cup
    [type : {"family_invite", "other"}, inviteCode : InviteCodes,
     expiresAt : {0, MaxClock + INVITE_TTL}]

NoParsedData == [inviteCode |-> Missing]

parseQRCode(qrData) ==
    IF qrData = NotJson THEN NoParsedData
    ELSE IF qrData.type # "family_invite" THEN NoParsedData
    ELSE IF fNow > qrData.expiresAt THEN NoParsedData
    ELSE [inviteCode |-> qrData.inviteCode]

HasMember(family, userId) ==
    \E i \in 1..Len(family.members) : family.members[i].userId = userId

\* a call that is not joinFamily and how it ended
Called(error) ==
    [call |-> "other", inviteCode |-> Missing, userId |-> Missing,
     error |-> error, flip |-> ~fLast.flip]

createFamily ==
    /\ fCalls < MaxCalls
    /\ \E createdBy \in UserIds, familyId \in FamilyIds,
          inviteCode \in InviteCodes :
          LET expiresAt == fNow + INVITE_TTL
              adminMember == [userId |-> createdBy, role |-> "admin"]
              family == [id |-> familyId, inviteCode |-> inviteCode,
                         members |-> <<adminMember>>]
              invite == [familyId |-> familyId, expiresAt |-> expiresAt,
                         usedCount |-> 0, isActive |-> TRUE]
          IN  /\ families' = MapSet(families, familyId, family)
              /\ invites' = MapSet(invites, inviteCode, invite)
              /\ fLast' = Called(NoError)
    /\ fCalls' = fCalls + 1
    /\ UNCHANGED <<fNow, fJoins>>

\* the checks of joinFamily without the one for an existing member
JoinErrorNoMemberCheck(inviteCode, userId) ==
    IF inviteCode \notin DOMAIN invites THEN "Invalid or expired invite code"
    ELSE IF ~invites[inviteCode].isActive
         THEN "Invalid or expired invite code"
    ELSE IF isInviteExpired(invites[inviteCode].expiresAt)
         THEN "Invite code has expired"
    ELSE IF invites[inviteCode].familyId \notin DOMAIN families
         THEN "Family not found"
    ELSE NoError

\* the error joinFamily throws, NoError when it does not throw
JoinError(inviteCode, userId) ==
    IF inviteCode \notin DOMAIN invites THEN "Invalid or expired invite code"
    ELSE IF ~invites[inviteCode].isActive
         THEN "Invalid or expired invite code"
    ELSE IF isInviteExpired(invites[inviteCode].expiresAt)
         THEN "Invite code has expired"
    ELSE IF invites[inviteCode].familyId \notin DOMAIN families
         THEN "Family not found"
    ELSE IF HasMember(families[invites[inviteCode].familyId], userId)
         THEN "User is already a member of this family"
    ELSE NoError

joinFamily(inviteCode, userId) ==
    LET error == JoinError(inviteCode, userId)
    IN  /\ fLast' = [call |-> "joinFamily", inviteCode |-> inviteCode,
                     userId |-> userId, error |-> error,
                     flip |-> ~fLast.flip]
        /\ IF error # NoError
           THEN UNCHANGED <<families, invites, fJoins, fCalls>>
           ELSE LET familyId == invites[inviteCode].familyId
                    newMember == [userId |-> userId, role |-> "member"]
                IN  /\ fCalls < MaxCalls
                    /\ families' =
                         [families EXCEPT ![familyId].members =
                                              Append(@, newMember)]
                    /\ invites' =
                         [invites EXCEPT ![inviteCode].usedCount = @ + 1]
                    /\ fJoins' = [fJoins EXCEPT ![inviteCode] = @ + 1]
                    /\ fCalls' = fCalls + 1
        /\ UNCHANGED fNow

Call_joinFamily ==
    \E inviteCode \in InviteCodes, userId \in UserIds :
        joinFamily(inviteCode, userId)

joinFamilyByQR ==
    \E qrData \in QRData, userId \in UserIds :
        LET parsedData == parseQRCode(qrData)
        IN  IF parsedData = NoParsedData
            THEN /\ fLast' = Called("Invalid QR code")
                 /\ UNCHANGED <<families, invites, fNow, fJoins, fCalls>>
            ELSE joinFamily(parsedData.inviteCode, userId)

\* POST /api/family/join
POST_family_join ==
    \E inviteCode \in InviteCodes \cup {Missing},
       userId \in UserIds \cup {Missing} :
        IF inviteCode = Missing \/ userId = Missing
        THEN /\ fLast' = Called(
                     "Invite code, user ID, name, and email are required")
             /\ UNCHANGED <<families, invites, fNow, fJoins, fCalls>>
        ELSE joinFamily(inviteCode, userId)

removeMember ==
    \E familyId \in FamilyIds, userId \in UserIds :
        /\ IF familyId \notin DOMAIN families
           THEN UNCHANGED <<families, fCalls>>
           ELSE /\ fCalls < MaxCalls
                /\ families' =
                     [families EXCEPT ![familyId].members =
                         SelectSeq(@, LAMBDA member : member.userId # userId)]
                /\ fCalls' = fCalls + 1
        /\ fLast' = Called(NoError)
        /\ UNCHANGED <<invites, fNow, fJoins>>

generateNewInvite ==
    \E familyId \in FamilyIds, inviteCode \in InviteCodes :
        IF familyId \notin DOMAIN families
        THEN /\ fLast' = Called("Family not found")
             /\ UNCHANGED <<families, invites, fNow, fJoins, fCalls>>
        ELSE /\ fCalls < MaxCalls
             /\ invites' = MapSet(invites, inviteCode,
                                  [familyId |-> familyId,
                                   expiresAt |-> fNow + INVITE_TTL,
                                   usedCount |-> 0, isActive |-> TRUE])
             /\ fLast' = Called(NoError)
             /\ fCalls' = fCalls + 1
             /\ UNCHANGED <<families, fNow, fJoins>>

\* time passes between two calls
Family_Tick ==
    /\ \E t \in (fNow + 1)..MaxClock : fNow' = t
    /\ UNCHANGED <<families, invites, fJoins, fCalls, fLast>>

FamilyStep ==
    \/ createFamily
    \/ Call_joinFamily
    \/ joinFamilyByQR
    \/ POST_family_join
    \/ removeMember
    \/ generateNewInvite
    \/ Family_Tick

\* the two static maps are empty when the class is loaded
InitFamily ==
    /\ engineOutcome = [e \in Engines |->
                           [kind |-> "failure", text |-> EmptyText,
                            confidence |-> NoConf]]
    /\ OcrIdle
    /\ ParseIdle
    /\ TotalsIdle
    /\ CleanIdle
    /\ NotifyIdle
    /\ families = <<>>
    /\ invites = <<>>
    /\ fNow = 0
    /\ fJoins = [c \in InviteCodes |-> 0]
    /\ fCalls = 0
    /\ fLast = [call |-> "none", inviteCode |-> Missing,
                userId |-> Missing, error |-> NoError, flip |-> FALSE]

NextFamily ==
    FamilyStep /\ UNCHANGED <<ocrVars, parseVars, totalsVars, cleanVars,
                              notifyVars>>

SpecFamily == InitFamily /\ [][NextFamily]_vars

\* this step is a call of joinFamily
JoinCalled == fLast' # fLast /\ fLast'.call = "joinFamily"

DistinctMembers(family) ==
    \A i, j \in 1..Len(family.members) :
        i # j => family.members[i].userId # family.members[j].userId

\* C28: after any sequence of createFamily, joinFamily, joinFamilyByQR and
\* removeMember calls no family has two members with the same userId, and a
\* joinFamily call for a user who is already a member of the invite's
\* family throws and adds nothing.
C28_NoDuplicateMember ==
    /\ [](\A f \in DOMAIN families : DistinctMembers(families[f]))
    /\ [][(/\ JoinCalled
           /\ fLast'.inviteCode \in DOMAIN invites
           /\ invites[fLast'.inviteCode].familyId \in DOMAIN families
           /\ HasMember(families[invites[fLast'.inviteCode].familyId],
                        fLast'.userId))
          => (fLast'.error # NoError /\ families' = families)]_vars

\* a member was refused by the member check, in a family of two
C28_Witness ==
    /\ fLast.call = "joinFamily"
    /\ fLast.error = "User is already a member of this family"
    /\ \E f \in DOMAIN families :
          /\ Len(families[f].members) = 2
          /\ families[f].members[2].userId = fLast.userId

\* C29: a joinFamily call that throws leaves every member list and every
\* usedCount unchanged; a call that succeeds appends exactly one member with
\* role 'member' to the invite's family and adds one to that invite's
\* usedCount; an invite's usedCount equals the number of successful joins
\* made with its code.
C29_JoinFrameAndCount ==
    /\ [][JoinCalled =>
            IF fLast'.error # NoError
            THEN families' = families /\ invites' = invites
            ELSE /\ families' =
                      [families EXCEPT
                          ![invites[fLast'.inviteCode].familyId].members =
                              Append(@, [userId |-> fLast'.userId,
                                         role |-> "member"])]
                 /\ invites' =
                      [invites EXCEPT ![fLast'.inviteCode].usedCount = @ + 1]
         ]_vars
    /\ [](\A c \in DOMAIN invites : invites[c].usedCount = fJoins[c])

(***************************************************************************)
(* NotificationService (src/lib/notification-service.ts).  The three       *)
(* channel senders only log and return true; nHanded records which of them *)
(* was handed which notification, and on whose behalf.                     *)
(***************************************************************************)
NumNotifications == 1
MaxTime == 2

NotificationIds == 1..NumNotifications

\* 'sms' stands for a type outside the union, which ends in the default case
NotificationTypes == {"app", "whatsapp", "email", "all", "sms"}

\* new Date(scheduledFor) of a string that is no date
InvalidDate == 0 - 1

ScheduleTimes == {InvalidDate} \cup 0..MaxTime

\* contactInfo, "" for a field that is not there
ContactInfos == [phoneNumber : {"", "phone"}, emailAddress : {"", "address"}]

\* no second argument
NoContactInfo == [phoneNumber |-> "", emailAddress |-> ""]

FullContactInfo == [phoneNumber |-> "phone", emailAddress |-> "address"]

\* result of sendNotification and the senders it called
sendNotification(notification, contactInfo) ==
    CASE notification.type = "app" ->
            [result |-> TRUE, senders |-> {"app"}]
      [] notification.type = "whatsapp" ->
            IF contactInfo.phoneNumber = ""
            THEN [result |-> FALSE, senders |-> {}]
            ELSE [result |-> TRUE, senders |-> {"whatsapp"}]
      [] notification.type = "email" ->
            IF contactInfo.emailAddress = ""
            THEN [result |-> FALSE, senders |-> {}]
            ELSE [result |-> TRUE, senders |-> {"email"}]
      [] notification.type = "all" ->
            [result |-> TRUE,
             senders |-> {"app"}
                \cup (IF contactInfo.phoneNumber = "" THEN {}
                      ELSE {"whatsapp"})
                \cup (IF contactInfo.emailAddress = "" THEN {}
                      ELSE {"email"})]
      [] OTHER -> [result |-> FALSE, senders |-> {}]

\* a scheduled send that is given the recipient's contact info
ScheduledSendWithContact(notification) ==
    sendNotification(notification, FullContactInfo)

\* this.sendNotification(notification), as scheduleNotification calls it
ScheduledSend(notification) == sendNotification(notification, NoContactInfo)

Handed(id, senders, caller) ==
    {[id |-> id, sender |-> c, caller |-> caller] : c \in senders}

scheduleNotification(id) ==
    /\ notes[id].state = "new"
    /\ IF notes[id].scheduledFor = InvalidDate
       THEN \* toISOString() throws a RangeError, caught
            /\ notes' = [notes EXCEPT ![id].state = "failed",
                                      ![id].returned = FALSE]
            /\ UNCHANGED nHanded
       ELSE IF notes[id].scheduledFor <= nNow
       THEN LET sent == ScheduledSend(notes[id])
            IN  /\ notes' = [notes EXCEPT ![id].state = "sent",
                                          ![id].returned = sent.result,
                                          ![id].sendResult = sent.result]
                /\ nHanded' = nHanded
                                \cup Handed(id, sent.senders, "schedule")
       ELSE /\ notes' = [notes EXCEPT ![id].state = "pending",
                                      ![id].returned = TRUE]
            /\ UNCHANGED nHanded
    /\ UNCHANGED nNow

\* the setTimeout callback
Timer_Fire(id) ==
    /\ notes[id].state = "pending"
    /\ nNow >= notes[id].scheduledFor
    /\ LET sent == ScheduledSend(notes[id])
       IN  /\ notes' = [notes EXCEPT ![id].state = "fired",
                                     ![id].sendResult = sent.result]
           /\ nHanded' = nHanded \cup Handed(id, sent.senders, "schedule")
    /\ UNCHANGED nNow

\* sendNotification called by somebody else, with or without contact info
Call_sendNotification(id) ==
    /\ \E contactInfo \in ContactInfos :
          nHanded' = nHanded \cup
              Handed(id, sendNotification(notes[id], contactInfo).senders,
                     "direct")
    /\ UNCHANGED <<nNow, notes>>

Notify_Tick ==
    /\ nNow < MaxTime
    /\ nNow' = nNow + 1
    /\ UNCHANGED <<notes, nHanded>>

NotifyStep ==
    \/ \E id \in NotificationIds : scheduleNotification(id)
    \/ \E id \in NotificationIds : Timer_Fire(id)
    \/ \E id \in NotificationIds : Call_sendNotification(id)
    \/ Notify_Tick

InitNotify ==
    /\ engineOutcome = [e \in Engines |->
                           [kind |-> "failure", text |-> EmptyText,
                            confidence |-> NoConf]]
    /\ OcrIdle
    /\ ParseIdle
    /\ TotalsIdle
    /\ CleanIdle
    /\ FamilyIdle
    /\ nNow = 0
    /\ notes \in [NotificationIds ->
                    [type : NotificationTypes, scheduledFor : ScheduleTimes,
                     state : {"new"}, returned : {FALSE},
                     sendResult : {FALSE}]]
    /\ nHanded = {}

NextNotify ==
    NotifyStep /\ UNCHANGED <<ocrVars, parseVars, totalsVars, cleanVars,
                              familyVars>>

SpecNotify == InitNotify /\ [][NextNotify]_vars

NeedsContact(id) == notes[id].type \in {"whatsapp", "email"}

\* C30: the send of scheduleNotification, immediate or from the timer,
\* passes no contact info, so a 'whatsapp' or 'email' notification given to
\* scheduleNotification is never handed to sendWhatsAppNotification or
\* sendEmailNotification on its behalf: the send returns false, although
\* for a future scheduledFor scheduleNotification has returned true.
C30_ScheduledSendHasNoContact ==
    \A id \in NotificationIds :
        NeedsContact(id) =>
            /\ \A h \in nHanded :
                  (h.id = id /\ h.caller = "schedule")
                      => h.sender \notin {"whatsapp", "email"}
            /\ notes[id].state = "sent" =>
                  (~notes[id].returned /\ ~notes[id].sendResult)
            /\ notes[id].state \in {"pending", "fired"} =>
                  (notes[id].returned /\ ~notes[id].sendResult)

\* the timer of a 'whatsapp' notification has fired: scheduleNotification
\* had returned true, the send failed, no sender was called for it
C30_Witness ==
    \E id \in NotificationIds :
        /\ notes[id].type = "whatsapp"
        /\ notes[id].state = "fired"
        /\ notes[id].returned
        /\ ~notes[id].sendResult
        /\ \A h \in nHanded : h.id # id

====
